---- MODULE Spec2Model ----
(***************************************************************************)
(* Model of pcm.py: the flair classifier, the tally accumulator, the       *)
(* metric collectors, word_count and the compass diagram renderer.         *)
(*                                                                         *)
(* A Python str is a sequence of one-character strings; None is the        *)
(* distinguished value None below.  A Python list of ten numbers is a      *)
(* function over 0..9.                                                     *)
(***************************************************************************)
EXTENDS Integers, Sequences, FiniteSets, TLC

\* ------------------------------------------------------------------ bounds
MaxFetch == 3      \* entries a remote listing yields at most
MaxStrLen == 6     \* length of the strings given to word_count
MaxTotal == 4      \* sum of the ten magnitudes given to pcm
MaxPanelFetch == 2 \* entries a listing yields at most to a collector main calls

\* ----------------------------------------------------------------- strings
None == <<"<None>">>

COLON == ":"
SPACE == " "
NL == "\n"

s_empty == <<>>
s_centrist == <<"c","e","n","t","r","i","s","t">>
s_CENTG == <<"C","E","N","T","G">>
s_auth == <<"a","u","t","h">>
s_authleft == <<"a","u","t","h","l","e","f","t">>
s_left == <<"l","e","f","t">>
s_libleft == <<"l","i","b","l","e","f","t">>
s_lib == <<"l","i","b">>
s_libright == <<"l","i","b","r","i","g","h","t">>
s_libright2 == <<"l","i","b","r","i","g","h","t","2">>
s_right == <<"r","i","g","h","t">>
s_authright == <<"a","u","t","h","r","i","g","h","t">>
s_undecided == <<"U","n","d","e","c","i","d","e","d","/","E","x","p","l","o","r","i","n","g">>
s_polcomp == <<"u","s","e","r","_","f","l","a","i","r","_","P","o","l","C","o","m","p">>
s_lrm == <<"U+200E">>

\* str.count(ch) for a one-character ch
RECURSIVE Count(_, _)
Count(s, ch) ==
    IF s = <<>> THEN 0
    ELSE (IF Head(s) = ch THEN 1 ELSE 0) + Count(Tail(s), ch)

\* str.split(sep) for a one-character sep: the list of the segments
RECURSIVE Split(_, _)
Split(s, sep) ==
    IF s = <<>> THEN << <<>> >>
    ELSE LET rest == Split(Tail(s), sep)
         IN  IF Head(s) = sep
             THEN << <<>> >> \o rest
             ELSE << <<Head(s)>> \o Head(rest) >> \o Tail(rest)

\* str.count("\n\n"): non-overlapping occurrences, scanning left to right
RECURSIVE CountPairs(_, _)
CountPairs(s, ch) ==
    IF Len(s) < 2 THEN 0
    ELSE IF s[1] = ch /\ s[2] = ch
         THEN 1 + CountPairs(SubSeq(s, 3, Len(s)), ch)
         ELSE CountPairs(Tail(s), ch)

\* str.replace("\n\n", "\n"): every non-overlapping pair becomes one
RECURSIVE ReplacePairs(_, _)
ReplacePairs(s, ch) ==
    IF Len(s) < 2 THEN s
    ELSE IF s[1] = ch /\ s[2] = ch
         THEN <<ch>> \o ReplacePairs(SubSeq(s, 3, Len(s)), ch)
         ELSE <<Head(s)>> \o ReplacePairs(Tail(s), ch)

\* ------------------------------------------------------------ get_flair_index
RuntimeError == -1

\* variant: the segment before the first colon (index 0 instead of 1)
FlairOf_first_segment(flair_text) ==
    IF flair_text # None /\ Count(flair_text, COLON) >= 2
    THEN Split(flair_text, COLON)[1]
    ELSE flair_text

\* lines 496-500: the segment between the first two colons, or the whole text
FlairOf(flair_text) ==
    IF flair_text # None /\ Count(flair_text, COLON) >= 2
    THEN Split(flair_text, COLON)[2]
    ELSE flair_text

\* variant: an unknown flair falls through to Unflaired
IndexOfFlair_default_unflaired(flair) ==
    IF flair \in {s_centrist, s_CENTG} THEN 0
    ELSE IF flair = s_auth THEN 1
    ELSE IF flair = s_authleft THEN 2
    ELSE IF flair = s_left THEN 3
    ELSE IF flair = s_libleft THEN 4
    ELSE IF flair = s_lib THEN 5
    ELSE IF flair \in {s_libright, s_libright2} THEN 6
    ELSE IF flair = s_right THEN 7
    ELSE IF flair = s_authright THEN 8
    ELSE 9

\* lines 501-522
IndexOfFlair(flair) ==
    IF flair \in {s_centrist, s_CENTG} THEN 0
    ELSE IF flair = s_auth THEN 1
    ELSE IF flair = s_authleft THEN 2
    ELSE IF flair = s_left THEN 3
    ELSE IF flair = s_libleft THEN 4
    ELSE IF flair = s_lib THEN 5
    ELSE IF flair \in {s_libright, s_libright2} THEN 6
    ELSE IF flair = s_right THEN 7
    ELSE IF flair = s_authright THEN 8
    ELSE IF flair \in {s_empty, s_undecided, s_polcomp, s_lrm, None} THEN 9
    ELSE RuntimeError

get_flair_index(flair_text) == IndexOfFlair(FlairOf(flair_text))

\* ------------------------------------------------------------------ word_count
\* variant: newlines counted without collapsing the blank lines
word_count_no_replace(string) ==
    Count(string, SPACE) + Count(string, NL) + 1

\* line 586
word_count(string) ==
    Count(string, SPACE) + Count(ReplacePairs(string, NL), NL) + 1

\* ----------------------------------------------------------- exact numbers
\* The renderer computes with quotients and square roots of its arguments.
\* A number is kept exact as (the sum of c * sqrt(r) over the terms <<r, c>>
\* of t) / d, where every r is squarefree (r = 1: the rational part), no two
\* terms share r, every c # 0, d > 0 and the c's and d have no common factor.
\* Two numbers are equal exactly when their representations are.
Abs(n) == IF n < 0 THEN -n ELSE n

RECURSIVE GCD(_, _)
GCD(a, b) == IF b = 0 THEN a ELSE GCD(b, a % b)

RECURSIVE GCDTerms(_, _)
GCDTerms(T, g) ==
    IF T = {} THEN g
    ELSE LET p == CHOOSE q \in T : TRUE
         IN  GCDTerms(T \ {p}, GCD(Abs(p[2]), g))

RECURSIVE SumSecond(_)
SumSecond(S) ==
    IF S = {} THEN 0
    ELSE LET p == CHOOSE q \in S : TRUE
         IN  p[2] + SumSecond(S \ {p})

\* floor of the square root of n, by bisection: lo * lo <= n < hi * hi
RECURSIVE Bisect(_, _, _)
Bisect(n, lo, hi) ==
    IF hi - lo <= 1 THEN lo
    ELSE LET mid == (lo + hi) \div 2
         IN  IF mid * mid <= n THEN Bisect(n, mid, hi) ELSE Bisect(n, lo, mid)

ISqrt(n) == Bisect(n, 0, 46341)

\* the largest f such that f * f divides n, for n >= 1
RECURSIVE SquarePartFrom(_, _)
SquarePartFrom(n, f) ==
    IF n % (f * f) = 0 THEN f ELSE SquarePartFrom(n, f - 1)

SquarePart(n) == SquarePartFrom(n, ISqrt(n))

Coef(T, r) ==
    IF \E p \in T : p[1] = r THEN (CHOOSE p \in T : p[1] = r)[2] ELSE 0

Norm(T, d) ==
    LET U == {p \in T : p[2] # 0}
        g == GCDTerms(U, d)
    IN  [t |-> {<<p[1], p[2] \div g>> : p \in U}, d |-> d \div g]

Rat(n, d) == Norm({<<1, n>>}, d)

Zero == Rat(0, 1)
One == Rat(1, 1)

Neg(x) == [t |-> {<<p[1], -p[2]>> : p \in x.t}, d |-> x.d]

Add(x, y) ==
    Norm({<<r, Coef(x.t, r) * y.d + Coef(y.t, r) * x.d>> :
              r \in {p[1] : p \in x.t \cup y.t}},
         x.d * y.d)

Sub(x, y) == Add(x, Neg(y))

Mul(x, y) ==
    LET Prod(p, q) ==
            LET f == SquarePart(p[1] * q[1])
            IN  <<(p[1] * q[1]) \div (f * f), p[2] * q[2] * f>>
        PP == x.t \X y.t
        R == {Prod(pq[1], pq[2])[1] : pq \in PP}
    IN  Norm({<<r, SumSecond({<<pq, Prod(pq[1], pq[2])[2]>> :
                                 pq \in {z \in PP : Prod(z[1], z[2])[1] = r}})>> :
                  r \in R},
             x.d * y.d)

\* x / y for a rational y # 0
Div(x, y) ==
    LET n == Coef(y.t, 1)
    IN  Mul(x, IF n > 0 THEN Rat(y.d, n) ELSE Rat(-y.d, -n))

\* math.sqrt(x) for a rational x >= 0
Sqrt(x) ==
    LET n == Coef(x.t, 1) * x.d
        f == SquarePart(n)
    IN  IF x = Zero THEN Zero ELSE Norm({<<n \div (f * f), f>>}, x.d)

\* bounds of P * (the numerator of a number with the terms T): the value is
\* strictly between them as soon as T has an irrational term
Below(T, P) ==
    SumSecond({<<p, IF p[1] = 1 THEN p[2] * P
                    ELSE IF p[2] > 0 THEN ISqrt(p[2] * p[2] * p[1] * P * P)
                    ELSE -(ISqrt(p[2] * p[2] * p[1] * P * P) + 1)>> : p \in T})

Above(T, P) ==
    SumSecond({<<p, IF p[1] = 1 THEN p[2] * P
                    ELSE IF p[2] > 0 THEN ISqrt(p[2] * p[2] * p[1] * P * P) + 1
                    ELSE -ISqrt(p[2] * p[2] * p[1] * P * P)>> : p \in T})

\* the sign of a non-zero numerator, refining the precision until it shows
RECURSIVE SignAt(_, _)
SignAt(T, P) ==
    IF Below(T, P) >= 0 /\ Above(T, P) > 0 THEN 1
    ELSE IF Above(T, P) <= 0 /\ Below(T, P) < 0 THEN -1
    ELSE SignAt(T, 2 * P)

Sign(x) == IF x.t = {} THEN 0 ELSE SignAt(x.t, 1)

Less(x, y) == Sign(Sub(x, y)) < 0
Leq(x, y) == Sign(Sub(x, y)) <= 0

AbsN(x) == IF Sign(x) < 0 THEN Neg(x) ELSE x

\* Python's max(a, b, c): the first of the largest
Max3(a, b, c) ==
    LET ab == IF Less(a, b) THEN b ELSE a
    IN  IF Less(ab, c) THEN c ELSE ab

\* ------------------------------------------------------------------- inputs
s_foo == <<"f","o","o">>
s_Lib == <<"L","i","b">>

\* the strings the classifier recognizes (None apart)
AliasStrings ==
    {s_centrist, s_CENTG, s_auth, s_authleft, s_left, s_libleft, s_lib,
     s_libright, s_libright2, s_right, s_authright,
     s_empty, s_undecided, s_polcomp, s_lrm}

\* colon-free texts: the recognized ones and some that are not
Middles == AliasStrings \cup {s_foo, s_Lib, <<"x">>, s_lib \o <<" ">>}
Prefixes == {<<>>, <<"x">>, s_foo}
Rests == {<<>>, <<"y">>, <<"y", ":", "z">>, <<":">>, s_lib \o <<":">>, <<"b","a","r">>}

Wrap(p, m, r) == p \o <<COLON>> \o m \o <<COLON>> \o r

\* texts with exactly one colon
OneColon == {m \o <<COLON>> : m \in {s_lib, s_foo, s_empty}}
               \cup {<<COLON>> \o m : m \in {s_lib, s_authleft}}
               \cup {s_foo \o <<COLON>> \o s_lib}

FlairTexts ==
    {None} \cup Middles \cup OneColon
           \cup {Wrap(p, m, r) : p \in Prefixes, m \in Middles, r \in Rests}

\* the flair texts the listings carry
TallyTexts ==
    {s_centrist, Wrap(<<>>, s_authleft, <<>>), s_libright2, s_empty, None,
     s_foo, Wrap(<<"x">>, s_lib, <<"y", ":", "z">>)}

Bodies == {<<>>, <<"a", " ", "b", NL, NL, "c">>}

\* An entry of a remote listing: has_flair is whether reading
\* author_flair_text succeeds (FALSE: AttributeError).  Posts are the entries
\* get_flairs iterates, whichever listing its mode selected (lines 559-566);
\* Comments are the comments the nested loops of lines 610-611 and 651-652
\* visit, in the order they visit them.
NoFlair == [has_flair |-> FALSE, author_flair_text |-> None, body |-> <<>>]
Posts ==
    {NoFlair} \cup {[has_flair |-> TRUE, author_flair_text |-> t, body |-> <<>>]
                        : t \in TallyTexts}
Comments ==
    {NoFlair} \cup {[has_flair |-> TRUE, author_flair_text |-> t, body |-> b]
                        : t \in TallyTexts \ {s_libright2, s_empty}, b \in Bodies}

SeqsUpTo(S, n) == UNION {[1..k -> S] : k \in 0..n}

Chars == {"a", SPACE, NL}
Thresholds == {1, 2}

Zeros == [k \in 0..9 |-> 0]

RECURSIVE SumTo(_, _)
SumTo(f, n) == IF n < 0 THEN 0 ELSE f[n] + SumTo(f, n - 1)
\* sum() of a ten-element list
Sum(f) == SumTo(f, 9)

\* variant: the bucket is set to 1 instead of incremented
Increment_assign(list, index) == [list EXCEPT ![index] = 1]

\* "list[index] += 1", lines 537, 616, 657
Increment(list, index) == [list EXCEPT ![index] = @ + 1]

\* variant: a missing attribute reads as None and is kept
Collect_default_none(posts, post) ==
    Append(posts, post.author_flair_text)

\* get_flairs, lines 569-572: try: posts_.append(...) except AttributeError: pass
Collect(posts, post) ==
    IF post.has_flair THEN Append(posts, post.author_flair_text) ELSE posts

\* ------------------------------------------------------------------- state
VARIABLES fn, pc, flair_text, string, threshold, listing, i, posts_,
          flair_texts, accumulator, comment_count, accumulated_length,
          walls_of_text, result,
          magnitudes, center, true_center, patches, ylim, xlim,
          mpc, subreddit_index, panel, mode, results, total_comments,
          pcm_args, progress, saved

\* the locals of pcm
pcmVars == <<magnitudes, center, true_center, patches, ylim, xlim>>

\* the locals of the classifier, the tally and the collectors
flairVars == <<flair_text, string, threshold, listing, i, posts_,
               flair_texts, accumulator, comment_count, accumulated_length,
               walls_of_text>>

\* main: its position (mpc, subreddit_index, panel), the mode it passes to
\* get_flairs, its locals results and comment_count (total_comments here),
\* the arguments of the pcm call of the panel just processed, and the
\* numbers of progress.update and figure.savefig calls made so far
mainVars == <<mpc, subreddit_index, panel, mode, results, total_comments,
              pcm_args, progress, saved>>

vars == <<fn, pc, result, flairVars, pcmVars, mainVars>>

NoResult == <<>>

\* no pcm call was made for the panel
NoCall == [called |-> FALSE, values |-> <<>>, label |-> FALSE]

\* main is not running
NoMain ==
    /\ mpc = "none" /\ subreddit_index = 0 /\ panel = 0 /\ mode = 0
    /\ results = NoResult /\ total_comments = 0 /\ pcm_args = NoCall
    /\ progress = 0 /\ saved = 0

\* pcm is not running
NoPcm ==
    /\ magnitudes = Zeros /\ center = Zero /\ true_center = Zero
    /\ patches = <<>> /\ ylim = <<>> /\ xlim = <<>>

InitFlairIndex ==
    /\ fn = "get_flair_index" /\ pc = "call"
    /\ flair_text \in FlairTexts
    /\ string = <<>> /\ threshold = 0
    /\ listing = <<>> /\ i = 1 /\ posts_ = <<>> /\ flair_texts = <<>>
    /\ accumulator = Zeros /\ comment_count = Zeros
    /\ accumulated_length = Zeros /\ walls_of_text = Zeros
    /\ result = NoResult
    /\ NoPcm
    /\ NoMain

InitWordCount ==
    /\ fn = "word_count" /\ pc = "call"
    /\ string \in SeqsUpTo(Chars, MaxStrLen)
    /\ flair_text = None /\ threshold = 0
    /\ listing = <<>> /\ i = 1 /\ posts_ = <<>> /\ flair_texts = <<>>
    /\ accumulator = Zeros /\ comment_count = Zeros
    /\ accumulated_length = Zeros /\ walls_of_text = Zeros
    /\ result = NoResult
    /\ NoPcm
    /\ NoMain

InitCountFlairs ==
    /\ fn = "count_flairs" /\ pc = "call"
    /\ flair_texts \in SeqsUpTo(TallyTexts, MaxFetch)
    /\ flair_text = None /\ string = <<>> /\ threshold = 0
    /\ listing = <<>> /\ i = 1 /\ posts_ = <<>>
    /\ accumulator = Zeros /\ comment_count = Zeros
    /\ accumulated_length = Zeros /\ walls_of_text = Zeros
    /\ result = NoResult
    /\ NoPcm
    /\ NoMain

InitGetFlairs ==
    /\ fn = "get_flairs" /\ pc = "call"
    /\ listing \in SeqsUpTo(Posts, MaxFetch)
    /\ flair_text = None /\ string = <<>> /\ threshold = 0
    /\ i = 1 /\ posts_ = <<>> /\ flair_texts = <<>>
    /\ accumulator = Zeros /\ comment_count = Zeros
    /\ accumulated_length = Zeros /\ walls_of_text = Zeros
    /\ result = NoResult
    /\ NoPcm
    /\ NoMain

InitCollector ==
    /\ fn \in {"get_average_comment_length", "get_wall_of_text_fraction"}
    /\ pc = "call"
    /\ listing \in SeqsUpTo(Comments, MaxFetch)
    /\ threshold \in (IF fn = "get_wall_of_text_fraction" THEN Thresholds ELSE {0})
    /\ flair_text = None /\ string = <<>>
    /\ i = 1 /\ posts_ = <<>> /\ flair_texts = <<>>
    /\ accumulator = Zeros /\ comment_count = Zeros
    /\ accumulated_length = Zeros /\ walls_of_text = Zeros
    /\ result = NoResult
    /\ NoPcm
    /\ NoMain

\* ----------------------------------------------------------------- actions
\* get_flair_index(flair_text), lines 473-522
GetFlairIndexCall ==
    /\ fn = "get_flair_index" /\ pc = "call"
    /\ LET index == get_flair_index(flair_text)
       IN  IF index = RuntimeError
           THEN pc' = "raised" /\ result' = NoResult
           ELSE pc' = "returned" /\ result' = index
    /\ UNCHANGED <<fn, flair_text, string, threshold, listing, i, posts_,
                   flair_texts, accumulator, comment_count,
                   accumulated_length, walls_of_text>>
    /\ UNCHANGED pcmVars
    /\ UNCHANGED mainVars

\* word_count(string), lines 577-586
WordCountCall ==
    /\ fn = "word_count" /\ pc = "call"
    /\ pc' = "returned"
    /\ result' = word_count(string)
    /\ UNCHANGED <<fn, flair_text, string, threshold, listing, i, posts_,
                   flair_texts, accumulator, comment_count,
                   accumulated_length, walls_of_text>>
    /\ UNCHANGED pcmVars
    /\ UNCHANGED mainVars

\* count_flairs, line 535
CountFlairsStart ==
    /\ fn = "count_flairs" /\ pc = "call"
    /\ accumulator' = Zeros
    /\ i' = 1
    /\ pc' = "count"
    /\ UNCHANGED <<fn, flair_text, string, threshold, listing, posts_,
                   flair_texts, comment_count, accumulated_length,
                   walls_of_text, result>>
    /\ UNCHANGED pcmVars
    /\ UNCHANGED mainVars

\* count_flairs, lines 536-537: one iteration of the loop
CountFlairsStep ==
    /\ pc = "count"
    /\ i <= Len(flair_texts)
    /\ LET index == get_flair_index(flair_texts[i])
       IN  IF index = RuntimeError
           THEN pc' = "raised" /\ UNCHANGED <<accumulator, i>>
           ELSE /\ accumulator' = Increment(accumulator, index)
                /\ i' = i + 1
                /\ pc' = pc
    /\ UNCHANGED <<fn, flair_text, string, threshold, listing, posts_,
                   flair_texts, comment_count, accumulated_length,
                   walls_of_text, result>>
    /\ UNCHANGED pcmVars
    /\ UNCHANGED mainVars

\* count_flairs, line 538 (and get_flairs, lines 573-574, which returns it)
CountFlairsReturn ==
    /\ pc = "count"
    /\ i > Len(flair_texts)
    /\ result' = accumulator
    /\ pc' = "returned"
    /\ UNCHANGED <<fn, flair_text, string, threshold, listing, i, posts_,
                   flair_texts, accumulator, comment_count,
                   accumulated_length, walls_of_text>>
    /\ UNCHANGED pcmVars
    /\ UNCHANGED mainVars

\* get_flairs, lines 556-567: the listing is fetched, posts_ = []
GetFlairsStart ==
    /\ fn = "get_flairs" /\ pc = "call"
    /\ posts_' = <<>>
    /\ i' = 1
    /\ pc' = "collect"
    /\ UNCHANGED <<fn, flair_text, string, threshold, listing, flair_texts,
                   accumulator, comment_count, accumulated_length,
                   walls_of_text, result>>
    /\ UNCHANGED pcmVars
    /\ UNCHANGED mainVars

\* get_flairs, lines 568-572: one iteration of the loop
GetFlairsCollect ==
    /\ pc = "collect"
    /\ i <= Len(listing)
    /\ posts_' = Collect(posts_, listing[i])
    /\ i' = i + 1
    /\ UNCHANGED <<fn, pc, flair_text, string, threshold, listing,
                   flair_texts, accumulator, comment_count,
                   accumulated_length, walls_of_text, result>>
    /\ UNCHANGED pcmVars
    /\ UNCHANGED mainVars

\* get_flairs, line 573: count_flairs(posts_) is entered (line 535)
GetFlairsCount ==
    /\ pc = "collect"
    /\ i > Len(listing)
    /\ flair_texts' = posts_
    /\ accumulator' = Zeros
    /\ i' = 1
    /\ pc' = "count"
    /\ UNCHANGED <<fn, flair_text, string, threshold, listing, posts_,
                   comment_count, accumulated_length, walls_of_text, result>>
    /\ UNCHANGED pcmVars
    /\ UNCHANGED mainVars

\* the per-category quotient "float(total) / float(count) if count else 0",
\* kept exact as <<numerator, denominator>>
Quotients(totals, counts) ==
    [k \in 0..9 |-> IF counts[k] # 0 THEN <<totals[k], counts[k]>> ELSE <<0, 1>>]

\* get_average_comment_length, lines 605-609
AverageStart ==
    /\ fn = "get_average_comment_length" /\ pc = "call"
    /\ comment_count' = Zeros
    /\ accumulated_length' = Zeros
    /\ i' = 1
    /\ pc' = "loop"
    /\ UNCHANGED <<fn, flair_text, string, threshold, listing, posts_,
                   flair_texts, accumulator, walls_of_text, result>>
    /\ UNCHANGED pcmVars
    /\ UNCHANGED mainVars

\* get_average_comment_length, lines 610-617: one comment of the nested loops
AverageStep ==
    /\ fn = "get_average_comment_length" /\ pc = "loop"
    /\ i <= Len(listing)
    /\ LET comment == listing[i]
           index == get_flair_index(comment.author_flair_text)
       IN  IF ~comment.has_flair
           THEN /\ i' = i + 1
                /\ UNCHANGED <<pc, comment_count, accumulated_length>>
           ELSE IF index = RuntimeError
           THEN /\ pc' = "raised"
                /\ UNCHANGED <<i, comment_count, accumulated_length>>
           ELSE /\ comment_count' = Increment(comment_count, index)
                /\ accumulated_length' =
                       [accumulated_length EXCEPT
                            ![index] = @ + word_count(comment.body)]
                /\ i' = i + 1
                /\ pc' = pc
    /\ UNCHANGED <<fn, flair_text, string, threshold, listing, posts_,
                   flair_texts, accumulator, walls_of_text, result>>
    /\ UNCHANGED pcmVars
    /\ UNCHANGED mainVars

\* get_average_comment_length, lines 618-624
AverageReturn ==
    /\ fn = "get_average_comment_length" /\ pc = "loop"
    /\ i > Len(listing)
    /\ result' = <<Quotients(accumulated_length, comment_count),
                   Sum(comment_count)>>
    /\ pc' = "returned"
    /\ UNCHANGED <<fn, flair_text, string, threshold, listing, i, posts_,
                   flair_texts, accumulator, comment_count,
                   accumulated_length, walls_of_text>>
    /\ UNCHANGED pcmVars
    /\ UNCHANGED mainVars

\* variant: a comment of exactly threshold words is a wall of text
IsWall_at_threshold(body, limit) ==
    IF word_count(body) >= limit THEN 1 ELSE 0

\* line 658: the bool "word_count(comment.body) > threshold", added as 0 or 1
IsWall(body, limit) ==
    IF word_count(body) > limit THEN 1 ELSE 0

\* get_wall_of_text_fraction, lines 646-650
WallStart ==
    /\ fn = "get_wall_of_text_fraction" /\ pc = "call"
    /\ comment_count' = Zeros
    /\ walls_of_text' = Zeros
    /\ i' = 1
    /\ pc' = "loop"
    /\ UNCHANGED <<fn, flair_text, string, threshold, listing, posts_,
                   flair_texts, accumulator, accumulated_length, result>>
    /\ UNCHANGED pcmVars
    /\ UNCHANGED mainVars

\* get_wall_of_text_fraction, lines 651-658: one comment of the nested loops
WallStep ==
    /\ fn = "get_wall_of_text_fraction" /\ pc = "loop"
    /\ i <= Len(listing)
    /\ LET comment == listing[i]
           index == get_flair_index(comment.author_flair_text)
       IN  IF ~comment.has_flair
           THEN /\ i' = i + 1
                /\ UNCHANGED <<pc, comment_count, walls_of_text>>
           ELSE IF index = RuntimeError
           THEN /\ pc' = "raised"
                /\ UNCHANGED <<i, comment_count, walls_of_text>>
           ELSE /\ comment_count' = Increment(comment_count, index)
                /\ walls_of_text' =
                       [walls_of_text EXCEPT
                            ![index] = @ + IsWall(comment.body, threshold)]
                /\ i' = i + 1
                /\ pc' = pc
    /\ UNCHANGED <<fn, flair_text, string, threshold, listing, posts_,
                   flair_texts, accumulator, accumulated_length, result>>
    /\ UNCHANGED pcmVars
    /\ UNCHANGED mainVars

\* get_wall_of_text_fraction, lines 659-665
WallReturn ==
    /\ fn = "get_wall_of_text_fraction" /\ pc = "loop"
    /\ i > Len(listing)
    /\ result' = <<Quotients(walls_of_text, comment_count),
                   Sum(comment_count)>>
    /\ pc' = "returned"
    /\ UNCHANGED <<fn, flair_text, string, threshold, listing, i, posts_,
                   flair_texts, accumulator, comment_count,
                   accumulated_length, walls_of_text>>
    /\ UNCHANGED pcmVars
    /\ UNCHANGED mainVars

\* ------------------------------------------------------------------- pcm
\* The ten magnitudes, in the order of the parameters (lines 39-48) and of
\* the category indices: 0 center, 1 auth, 2 authleft, 3 left, 4 libleft,
\* 5 lib, 6 libright, 7 right, 8 authright, 9 unflaired.  The drawing depends
\* on the quotients magnitude / center only, so whole numbers stand for all
\* non-negative arguments of the same proportions.

\* the sequences of n naturals that sum to at most total
RECURSIVE Tuples(_, _)
Tuples(n, total) ==
    IF n = 0 THEN {<<>>}
    ELSE UNION {{<<v>> \o t : t \in Tuples(n - 1, total - v)} : v \in 0..total}

Magnitudes == {[k \in 0..9 |-> s[k + 1]] : s \in Tuples(10, MaxTotal)}

InitPcm ==
    /\ fn = "pcm" /\ pc = "call"
    /\ magnitudes \in Magnitudes
    /\ center = Rat(magnitudes[0], 1) /\ true_center = Zero
    /\ patches = <<>> /\ ylim = <<>> /\ xlim = <<>>
    /\ flair_text = None /\ string = <<>> /\ threshold = 0
    /\ listing = <<>> /\ i = 1 /\ posts_ = <<>> /\ flair_texts = <<>>
    /\ accumulator = Zeros /\ comment_count = Zeros
    /\ accumulated_length = Zeros /\ walls_of_text = Zeros
    /\ result = NoResult
    /\ NoMain

\* variant: the mean of the other nine is used even when it is zero
ScaleOf_no_default(m) ==
    IF m[0] # 0 THEN Rat(m[0], 1)
    ELSE Rat(m[1] + m[2] + m[3] + m[4] + m[5] + m[6] + m[7] + m[8] + m[9], 9)

\* variant: the sum of the ten magnitudes is the scale
ScaleOf_total(m) ==
    IF Sum(m) = 0 THEN One ELSE Rat(Sum(m), 1)

\* lines 89-107: the value of center after the guard
ScaleOf(m) ==
    IF m[0] # 0 THEN Rat(m[0], 1)
    ELSE LET mean ==
                 Rat(m[1] + m[2] + m[3] + m[4] + m[5] + m[6] + m[7] + m[8] + m[9], 9)
         IN  IF mean = Zero THEN One ELSE mean

\* x / center
Edge(x, c) == Div(Rat(x, 1), c)

\* variant: the corner side is linear in the magnitude
CornerSide_linear(x, c) == Div(Rat(x, 1), c)

\* sqrt(x / center)
CornerSide(x, c) == Sqrt(Div(Rat(x, 1), c))

\* matplotlib.patches.Rectangle(xy, width, height)
Rectangle(xy, width, height) ==
    [x |-> xy[1], y |-> xy[2], width |-> width, height |-> height]

\* variant: the unflaired square is placed past the right rectangle only
UnflairedX_right_only(m, c) == Add(Rat(3, 4), Edge(m[7], c))

\* lines 132-137
UnflairedX(m, c) ==
    Add(Rat(3, 4),
        Max3(Edge(m[7], c), CornerSide(m[6], c), CornerSide(m[8], c)))

\* lines 110-143
Patches(m, c, tc) ==
    LET lo == Rat(-1, 2)
        hi == Rat(1, 2)
        p == << Rectangle(<<lo, lo>>, Div(tc, c), Div(tc, c)),
                Rectangle(<<lo, hi>>, One, Edge(m[1], c)),
                Rectangle(<<lo, hi>>, Neg(CornerSide(m[2], c)), CornerSide(m[2], c)),
                Rectangle(<<lo, lo>>, Neg(Edge(m[3], c)), One),
                Rectangle(<<lo, lo>>, Neg(CornerSide(m[4], c)), Neg(CornerSide(m[4], c))),
                Rectangle(<<lo, lo>>, One, Neg(Edge(m[5], c))),
                Rectangle(<<hi, lo>>, CornerSide(m[6], c), Neg(CornerSide(m[6], c))),
                Rectangle(<<hi, lo>>, Edge(m[7], c), One),
                Rectangle(<<hi, hi>>, CornerSide(m[8], c), CornerSide(m[8], c)),
                Rectangle(<<UnflairedX(m, c), Mul(Rat(-1, 2), CornerSide(m[9], c))>>,
                          CornerSide(m[9], c), CornerSide(m[9], c)) >>
    IN  [k \in 0..9 |-> p[k + 1]]

\* lines 407-420: the arguments of set_ylim
YLim(m, c) ==
    << Sub(Rat(-1, 2),
           Max3(Edge(m[5], c), CornerSide(m[6], c), CornerSide(m[4], c))),
       Add(Rat(1, 2),
           Max3(Edge(m[1], c), CornerSide(m[8], c), CornerSide(m[2], c))) >>

\* lines 421-436: the arguments of set_xlim
XLim(m, c) ==
    << Sub(Sub(Rat(-1, 2),
               Max3(Edge(m[3], c), CornerSide(m[4], c), CornerSide(m[2], c))),
           Rat(1, 2)),
       Add(Add(One,
               Max3(Edge(m[7], c), CornerSide(m[6], c), CornerSide(m[8], c))),
           CornerSide(m[9], c)) >>

\* pcm, lines 87-107
PcmScale ==
    /\ fn = "pcm" /\ pc = "call"
    /\ true_center' = center
    /\ center' = ScaleOf(magnitudes)
    /\ pc' = "scaled"
    /\ UNCHANGED <<fn, result, magnitudes, patches, ylim, xlim>>
    /\ UNCHANGED flairVars
    /\ UNCHANGED mainVars

\* pcm, lines 109-143 (the labels and callouts of lines 162-403 divide by the
\* same center and keep no state): a zero center is a ZeroDivisionError
PcmPatches ==
    /\ fn = "pcm" /\ pc = "scaled"
    /\ IF center = Zero
       THEN pc' = "raised" /\ UNCHANGED patches
       ELSE pc' = "drawn" /\ patches' = Patches(magnitudes, center, true_center)
    /\ UNCHANGED <<fn, result, magnitudes, center, true_center, ylim, xlim>>
    /\ UNCHANGED flairVars
    /\ UNCHANGED mainVars

\* pcm, lines 407-436
PcmLimits ==
    /\ fn = "pcm" /\ pc = "drawn"
    /\ ylim' = YLim(magnitudes, center)
    /\ xlim' = XLim(magnitudes, center)
    /\ pc' = "returned"
    /\ UNCHANGED <<fn, result, magnitudes, center, true_center, patches>>
    /\ UNCHANGED flairVars
    /\ UNCHANGED mainVars

\* ------------------------------------------------------------------ main
\* line 670
Subreddits == <<"PoliticalCompass", "PoliticalCompassMemes">>
\* lines 671, 675: the panels of a community
Panels == 5
\* line 673
WallOfText == 100

\* the collector of a panel: lines 681, 694, 707, 720, 728
PanelCollector(p) ==
    IF p <= 2 THEN "get_flairs"
    ELSE IF p = 3 THEN "get_average_comment_length"
    ELSE "get_wall_of_text_fraction"

\* lines 682, 695, 708: "if sum(results):"
ShouldDraw(tally) == Sum(tally) # 0

\* variant: the percentages of the labels are passed as the magnitudes
Fractions_percent(tally) ==
    [k \in 0..9 |-> Rat(100 * tally[k], Sum(tally))]

\* lines 685, 698, 711: [result / sum(results) for result in results]
Fractions(tally) ==
    [k \in 0..9 |-> Rat(tally[k], Sum(tally))]

\* the exact numbers of the quotients a metric collector returned
Numbers(quotients) ==
    [k \in 0..9 |-> Rat(quotients[k][1], quotients[k][2])]

InitMain ==
    /\ fn = "main" /\ pc = "idle"
    /\ flair_text = None /\ string = <<>> /\ threshold = 0
    /\ listing = <<>> /\ i = 1 /\ posts_ = <<>> /\ flair_texts = <<>>
    /\ accumulator = Zeros /\ comment_count = Zeros
    /\ accumulated_length = Zeros /\ walls_of_text = Zeros
    /\ result = NoResult
    /\ NoPcm
    /\ mpc = "fetch" /\ subreddit_index = 0 /\ panel = 0 /\ mode = 0
    /\ results = NoResult /\ total_comments = 0 /\ pcm_args = NoCall
    /\ progress = 0 /\ saved = 0

\* main, lines 681, 694, 707, 720, 728-730: the collector of the panel is
\* called; the listing is what the remote side will yield to it
MainFetch ==
    /\ mpc = "fetch"
    /\ fn' = PanelCollector(panel)
    /\ pc' = "call"
    /\ mode' = (IF panel <= 2 THEN panel ELSE mode)
    /\ threshold' = (IF panel = 4 THEN WallOfText ELSE 0)
    /\ listing' \in SeqsUpTo(IF panel <= 2 THEN Posts ELSE Comments, MaxPanelFetch)
    /\ pcm_args' = NoCall
    /\ mpc' = "wait"
    /\ UNCHANGED <<flair_text, string, i, posts_, flair_texts, accumulator,
                   comment_count, accumulated_length, walls_of_text, result>>
    /\ UNCHANGED <<subreddit_index, panel, results, total_comments,
                   progress, saved>>
    /\ UNCHANGED pcmVars

\* a request of the listing fails while the collector reads it (lines 560-568,
\* 607-611, 648-652): the client library raises
RemoteFailure ==
    /\ mpc = "wait"
    /\ pc \in {"call", "collect", "loop"}
    /\ pc' = "raised"
    /\ UNCHANGED <<fn, result>>
    /\ UNCHANGED flairVars
    /\ UNCHANGED pcmVars
    /\ UNCHANGED mainVars

\* an exception of the collector leaves main: nothing catches it (lines 668-752)
MainAbort ==
    /\ mpc = "wait"
    /\ pc = "raised"
    /\ mpc' = "aborted"
    /\ UNCHANGED <<fn, pc, result>>
    /\ UNCHANGED flairVars
    /\ UNCHANGED pcmVars
    /\ UNCHANGED <<subreddit_index, panel, mode, results, total_comments,
                   pcm_args, progress, saved>>

\* main, lines 681, 694, 707, 720, 728: the collector returns, its locals
\* are gone and main binds results (and comment_count)
MainReceive ==
    /\ mpc = "wait"
    /\ pc = "returned"
    /\ results' = (IF panel <= 2 THEN result ELSE result[1])
    /\ total_comments' = (IF panel <= 2 THEN total_comments ELSE result[2])
    /\ fn' = "main" /\ pc' = "idle" /\ result' = NoResult
    /\ flair_text' = None /\ string' = <<>> /\ threshold' = 0
    /\ listing' = <<>> /\ i' = 1 /\ posts_' = <<>> /\ flair_texts' = <<>>
    /\ accumulator' = Zeros /\ comment_count' = Zeros
    /\ accumulated_length' = Zeros /\ walls_of_text' = Zeros
    /\ mpc' = "render"
    /\ UNCHANGED <<subreddit_index, panel, mode, pcm_args, progress, saved>>
    /\ UNCHANGED pcmVars

\* main, lines 682-689, 695-702, 708-715, 721-723, 731-738: the panel is
\* drawn and labelled, progress is updated and the loops go on; results and
\* comment_count are not read again before they are bound anew
MainRender ==
    /\ mpc = "render"
    /\ pcm_args' =
           (IF panel <= 2
            THEN IF ShouldDraw(results)
                 THEN [called |-> TRUE, values |-> Fractions(results),
                       label |-> FALSE]
                 ELSE NoCall
            ELSE [called |-> TRUE, values |-> Numbers(results),
                  label |-> (panel = 4 /\ subreddit_index = Len(Subreddits) - 1)])
    /\ progress' = progress + 1
    /\ results' = NoResult
    /\ total_comments' = 0
    /\ IF panel < Panels - 1
       THEN panel' = panel + 1 /\ mpc' = "fetch" /\ UNCHANGED subreddit_index
       ELSE IF subreddit_index + 1 < Len(Subreddits)
       THEN panel' = 0 /\ subreddit_index' = subreddit_index + 1 /\ mpc' = "fetch"
       ELSE mpc' = "save" /\ UNCHANGED <<panel, subreddit_index>>
    /\ UNCHANGED <<fn, pc, result, mode, saved>>
    /\ UNCHANGED flairVars
    /\ UNCHANGED pcmVars

\* main, lines 740-752: the figure is saved and shown
MainSave ==
    /\ mpc = "save"
    /\ saved' = saved + 1
    /\ mpc' = "done"
    /\ UNCHANGED <<fn, pc, result>>
    /\ UNCHANGED flairVars
    /\ UNCHANGED pcmVars
    /\ UNCHANGED <<subreddit_index, panel, mode, results, total_comments,
                   pcm_args, progress>>

\* --------------------------------------------------------------- specification
Init ==
    \/ InitFlairIndex
    \/ InitWordCount
    \/ InitCountFlairs
    \/ InitGetFlairs
    \/ InitCollector
    \/ InitPcm

Next ==
    \/ GetFlairIndexCall
    \/ WordCountCall
    \/ CountFlairsStart
    \/ CountFlairsStep
    \/ CountFlairsReturn
    \/ GetFlairsStart
    \/ GetFlairsCollect
    \/ GetFlairsCount
    \/ AverageStart
    \/ AverageStep
    \/ AverageReturn
    \/ WallStart
    \/ WallStep
    \/ WallReturn
    \/ PcmScale
    \/ PcmPatches
    \/ PcmLimits

Spec == Init /\ [][Next]_vars

\* a run of main
NextMain ==
    \/ MainFetch
    \/ RemoteFailure
    \/ MainAbort
    \/ MainReceive
    \/ MainRender
    \/ MainSave
    \/ GetFlairsStart
    \/ GetFlairsCollect
    \/ GetFlairsCount
    \/ CountFlairsStep
    \/ CountFlairsReturn
    \/ AverageStart
    \/ AverageStep
    \/ AverageReturn
    \/ WallStart
    \/ WallStep
    \/ WallReturn

SpecMain == InitMain /\ [][NextMain]_vars

\* ------------------------------------------------------------- classifier
\* the documented index of every recognized alias
DocumentedIndex(a) ==
    CASE a = s_centrist -> 0
      [] a = s_CENTG -> 0
      [] a = s_auth -> 1
      [] a = s_authleft -> 2
      [] a = s_left -> 3
      [] a = s_libleft -> 4
      [] a = s_lib -> 5
      [] a = s_libright -> 6
      [] a = s_libright2 -> 6
      [] a = s_right -> 7
      [] a = s_authright -> 8
      [] a = s_empty -> 9
      [] a = s_undecided -> 9
      [] a = s_polcomp -> 9
      [] a = s_lrm -> 9
      [] a = None -> 9

Aliases == AliasStrings \cup {None}

\* flair_text carries the alias a between its first and its second colon
Carries(a) == \E p \in Prefixes, r \in Rests : flair_text = Wrap(p, a, r)

Classified == fn = "get_flair_index" /\ pc # "call"

\* C1: every recognized alias, alone or as the segment between the first and
\* the second colon of a text with at least two colons, gets its documented
\* index, and every returned index is in 0..9.
T_C1 ==
    Classified =>
        /\ \A a \in Aliases :
               flair_text = a => pc = "returned" /\ result = DocumentedIndex(a)
        /\ \A a \in AliasStrings :
               Carries(a) => pc = "returned" /\ result = DocumentedIndex(a)
        /\ pc = "returned" => result \in 0..9

W_C1 ==
    /\ Classified /\ pc = "returned"
    /\ flair_text = Wrap(<<>>, s_authleft, <<>>)
    /\ result = 2

\* C2 as stated: every text that is not itself a recognized alias raises.
CE_C2 ==
    Classified /\ flair_text \notin Aliases => pc = "raised"

\* C2 amended: a text raises when neither the text itself nor, for a text
\* with at least two colons, the segment between its first two colons is a
\* recognized alias; no index is returned then.
T_C2 ==
    /\ Classified
    /\ flair_text \notin Aliases
    /\ ~ \E a \in AliasStrings : Carries(a)
    => pc = "raised" /\ result = NoResult

W_C2 ==
    /\ Classified /\ pc = "raised"
    /\ flair_text = Wrap(<<"x">>, s_Lib, <<"y", ":", "z">>)

\* ------------------------------------------------------------------ tally
\* the inputs of flair_texts that get_flair_index maps to k
Mapped(texts, k) == {j \in 1..Len(texts) : get_flair_index(texts[j]) = k}

\* exactly one bucket of list grows by exactly 1, the others stay
OneBucketMore(old, new) ==
    /\ DOMAIN new = 0..9
    /\ \E k \in 0..9 :
           /\ new[k] = old[k] + 1
           /\ \A j \in 0..9 \ {k} : new[j] = old[j]

TallyResult ==
    fn = "count_flairs" /\ pc = "returned" =>
        /\ DOMAIN result = 0..9
        /\ \A k \in 0..9 :
               result[k] >= 0 /\ result[k] = Cardinality(Mapped(flair_texts, k))
        /\ Sum(result) = Len(flair_texts)

TallyStep ==
    pc = "count" /\ pc' = "count" /\ i' # i =>
        /\ i' = i + 1
        /\ OneBucketMore(accumulator, accumulator')

\* C3: count_flairs returns ten counts, bucket k being the number of inputs
\* classified as k, summing to the length of the input; the list keeps its
\* ten buckets and every input adds exactly 1 to exactly one bucket.
T_C3 ==
    /\ [](TallyResult /\ DOMAIN accumulator = 0..9)
    /\ [][TallyStep]_vars

W_C3 ==
    /\ fn = "count_flairs" /\ pc = "returned"
    /\ Len(flair_texts) >= 3
    /\ result[2] >= 2 /\ result[9] >= 1

\* -------------------------------------------------------------- skipping
HasFlair == {j \in 1..Len(listing) : listing[j].has_flair}

AtEntryWithoutFlair ==
    /\ pc \in {"collect", "loop"}
    /\ i <= Len(listing)
    /\ ~listing[i].has_flair

SkipStep ==
    AtEntryWithoutFlair =>
        /\ pc' = pc
        /\ i' = i + 1
        /\ UNCHANGED <<posts_, accumulator, comment_count,
                       accumulated_length, walls_of_text, result>>

SkipResult ==
    pc = "returned" =>
        /\ fn = "get_flairs" => Sum(result) = Cardinality(HasFlair)
        /\ fn \in {"get_average_comment_length", "get_wall_of_text_fraction"}
               => result[2] = Cardinality(HasFlair)

\* C4: in the three collectors an entry without the flair attribute changes
\* no accumulator and raises nothing, and the returned tally (or total
\* comment count) sums to the number of entries that have the attribute.
T_C4 ==
    /\ []SkipResult
    /\ [][SkipStep]_vars

W_C4 ==
    /\ fn = "get_flairs" /\ pc = "returned"
    /\ \E j \in 1..Len(listing) : ~listing[j].has_flair
    /\ Sum(result) = Cardinality(HasFlair)
    /\ Sum(result) > 0

\* ------------------------------------------------------------- word count
\* the summed weight of the maximal runs of ch in s, a run of k counting
\* (k + 1) \div 2; run is the length of the run being read
RECURSIVE RunWeight(_, _, _)
RunWeight(s, ch, run) ==
    IF s = <<>> THEN (run + 1) \div 2
    ELSE IF Head(s) = ch THEN RunWeight(Tail(s), ch, run + 1)
    ELSE (run + 1) \div 2 + RunWeight(Tail(s), ch, 0)

Counted == fn = "word_count" /\ pc = "returned"

s_a_b_nn_c == <<"a", SPACE, "b", NL, NL, "c">>

\* C5 as stated: spaces plus blank-line separators plus one.
CE_C5 ==
    Counted => result = Count(string, SPACE) + CountPairs(string, NL) + 1

\* C5 amended: spaces, plus the newlines left once every "\n\n" is collapsed
\* into one "\n" (a run of k newlines counts (k + 1) div 2, so a single
\* newline counts 1), plus one.
T_C5 ==
    Counted =>
        /\ result = Count(string, SPACE) + RunWeight(string, NL, 0) + 1
        /\ string = s_a_b_nn_c => result = 3
        /\ string = <<>> => result = 1

W_C5 ==
    /\ Counted
    /\ string = <<"a", NL, "a", NL, NL>>
    /\ result = 3

\* --------------------------------------------------------------- renderer
Scaled == fn = "pcm" /\ pc \in {"scaled", "drawn", "returned"}
Drawn == fn = "pcm" /\ pc \in {"drawn", "returned"}

\* C6: whatever the ten non-negative magnitudes, the divisor of every
\* normalization (center, after the guard) is not zero and the renderer
\* never stops on a division by zero.
T_C6 ==
    fn = "pcm" =>
        /\ pc # "raised"
        /\ Scaled => center # Zero /\ Sign(center) > 0

W_C6 ==
    /\ fn = "pcm" /\ pc = "returned"
    /\ Sum(magnitudes) = 0
    /\ center = One

\* the inputs that move one unit of magnitude from category a to category b
Moved(m, a, b) == [m EXCEPT ![a] = @ - 1, ![b] = @ + 1]

\* C7 as stated: the scale is a function of the sum of the magnitudes,
\* and is 1 when the sum is zero.
CE_C7 ==
    fn = "pcm" /\ pc = "scaled" =>
        /\ Sum(magnitudes) = 0 => center = One
        /\ \A a, b \in 0..9 :
               magnitudes[a] > 0 => ScaleOf(Moved(magnitudes, a, b)) = center

\* the magnitude a patch stands for, recovered from its sides and the scale c
Recovered(k, c) ==
    IF k = 0 THEN Mul(patches[k].width, c)
    ELSE IF k \in {1, 5} THEN Mul(AbsN(patches[k].height), c)
    ELSE IF k \in {3, 7} THEN Mul(AbsN(patches[k].width), c)
    ELSE Mul(Mul(patches[k].width, patches[k].width), c)

\* C7 amended: the ten magnitudes are normalized by one shared scale, which
\* is the center magnitude when that is not zero, else one ninth of the sum
\* of the magnitudes when that is not zero, else 1.
T_C7 ==
    /\ Scaled =>
           /\ center = (IF magnitudes[0] # 0 THEN Rat(magnitudes[0], 1)
                        ELSE IF Sum(magnitudes) # 0 THEN Rat(Sum(magnitudes), 9)
                        ELSE One)
           /\ Sum(magnitudes) = 0 => center = One
    /\ Drawn => \A k \in 0..9 : Recovered(k, center) = Rat(magnitudes[k], 1)

W_C7 ==
    /\ Drawn
    /\ magnitudes[0] = 0 /\ magnitudes[9] = 2 /\ magnitudes[3] = 1
    /\ center = Rat(1, 3)

Corners == {2, 4, 6, 8, 9}
Edges == {1, 3, 5, 7}

\* magnitude / c
Quotient(k) == Div(Rat(magnitudes[k], 1), center)

\* C8: the corner squares and the unflaired square have equal sides whose
\* square is magnitude / c; the edge rectangles have one side 1 and the other
\* magnitude / c.
T_C8 ==
    Drawn =>
        /\ \A k \in Corners :
               /\ AbsN(patches[k].width) = AbsN(patches[k].height)
               /\ Mul(patches[k].width, patches[k].width) = Quotient(k)
        /\ \A k \in Edges :
               \/ patches[k].width = One /\ AbsN(patches[k].height) = Quotient(k)
               \/ patches[k].height = One /\ AbsN(patches[k].width) = Quotient(k)

W_C8 ==
    /\ Drawn
    /\ magnitudes[0] = 1 /\ magnitudes[2] = 2 /\ magnitudes[7] = 1
    /\ patches[2].width = Neg(Sqrt(Rat(2, 1)))
    /\ patches[7].width = One

\* the extent of a rectangle, whose width and height may be negative
XLo(r) == IF Sign(r.width) < 0 THEN Add(r.x, r.width) ELSE r.x
XHi(r) == IF Sign(r.width) < 0 THEN r.x ELSE Add(r.x, r.width)
YLo(r) == IF Sign(r.height) < 0 THEN Add(r.y, r.height) ELSE r.y
YHi(r) == IF Sign(r.height) < 0 THEN r.y ELSE Add(r.y, r.height)

DisjointInteriors(a, b) ==
    \/ Leq(XHi(a), XLo(b))
    \/ Leq(XHi(b), XLo(a))
    \/ Leq(YHi(a), YLo(b))
    \/ Leq(YHi(b), YLo(a))

\* C9: the ten rectangles have pairwise disjoint interiors; the left edge of
\* the unflaired square is 0.25 to the right of the right-most extent of the
\* right rectangle and the libright and authright squares, and to the right
\* of all the nine others.
T_C9 ==
    Drawn =>
        /\ \A a, b \in 0..9 : a < b => DisjointInteriors(patches[a], patches[b])
        /\ \A k \in {6, 7, 8} :
               Leq(Add(XHi(patches[k]), Rat(1, 4)), XLo(patches[9]))
        /\ \E k \in {6, 7, 8} :
               Add(XHi(patches[k]), Rat(1, 4)) = XLo(patches[9])
        /\ \A k \in 0..8 : Less(XHi(patches[k]), XLo(patches[9]))

W_C9 ==
    /\ Drawn
    /\ magnitudes[0] = 1 /\ magnitudes[8] = 2 /\ magnitudes[9] = 1
    /\ XLo(patches[9]) = Add(Rat(3, 4), Sqrt(Rat(2, 1)))

Within(r) ==
    /\ Leq(xlim[1], XLo(r)) /\ Leq(XHi(r), xlim[2])
    /\ Leq(ylim[1], YLo(r)) /\ Leq(YHi(r), ylim[2])

\* C10: the limits given to set_xlim and set_ylim enclose each of the ten
\* rectangles, the unflaired square included.
CE_C10 ==
    fn = "pcm" /\ pc = "returned" => \A k \in 0..9 : Within(patches[k])

\* -------------------------------------------------------------- collectors
\* the comments of the listing that are counted for category k
CountedOf(k) ==
    {j \in 1..Len(listing) :
         listing[j].has_flair /\ get_flair_index(listing[j].author_flair_text) = k}

\* those of them that are longer than the threshold
WallsOf(k) == {j \in CountedOf(k) : word_count(listing[j].body) > threshold}

RECURSIVE WordsOf(_)
\* the summed word count of the comments J of the listing
WordsOf(J) ==
    IF J = {} THEN 0
    ELSE LET j == CHOOSE x \in J : TRUE
         IN  word_count(listing[j].body) + WordsOf(J \ {j})

RECURSIVE TotalCounted(_)
TotalCounted(k) ==
    IF k < 0 THEN 0 ELSE Cardinality(CountedOf(k)) + TotalCounted(k - 1)

\* q is the exact quotient num / den, or 0 when den is 0
IsQuotient(q, num, den) ==
    IF den = 0 THEN q = <<0, 1>> ELSE q = <<num, den>>

WallResult ==
    fn = "get_wall_of_text_fraction" /\ pc = "returned" =>
        /\ \A k \in 0..9 :
               /\ IsQuotient(result[1][k], Cardinality(WallsOf(k)),
                             Cardinality(CountedOf(k)))
               /\ result[1][k][2] > 0
               /\ 0 <= result[1][k][1] /\ result[1][k][1] <= result[1][k][2]
        /\ result[2] = TotalCounted(9)

AverageResult ==
    fn = "get_average_comment_length" /\ pc = "returned" =>
        /\ \A k \in 0..9 :
               /\ IsQuotient(result[1][k], WordsOf(CountedOf(k)),
                             Cardinality(CountedOf(k)))
               /\ result[1][k][2] > 0
        /\ result[2] = TotalCounted(9)

FreshAccumulators ==
    /\ fn = "get_average_comment_length" /\ pc = "loop" /\ i = 1
           => comment_count = Zeros /\ accumulated_length = Zeros
    /\ fn = "get_wall_of_text_fraction" /\ pc = "loop" /\ i = 1
           => comment_count = Zeros /\ walls_of_text = Zeros

\* C12: get_wall_of_text_fraction returns per category the counted comments
\* longer than the threshold over the counted comments, get_average_comment_
\* length the summed word count over the counted comments, both 0 for a
\* category without comments; every fraction is in [0, 1], the second result
\* is the sum of the ten counts, and the accumulators start at zero.
T_C12 == WallResult /\ AverageResult /\ FreshAccumulators

W_C12 ==
    /\ fn = "get_wall_of_text_fraction" /\ pc = "returned"
    /\ threshold = 1
    /\ result[1][0] = <<1, 2>>
    /\ result[1][5] = <<0, 1>>
    /\ result[2] = 2

\* ------------------------------------------------------------------- run
\* the panels completed before the one main is at
Position == subreddit_index * Panels + panel
AllPanels == Panels * Len(Subreddits)

RECURSIVE AddTo(_, _)
\* the exact sum of the numbers f[0], ..., f[n]
AddTo(f, n) == IF n < 0 THEN Zero ELSE Add(f[n], AddTo(f, n - 1))

MainOrder ==
    /\ saved \in {0, 1}
    /\ saved = 1 <=> mpc = "done"
    /\ mpc \in {"save", "done"} => progress = AllPanels
    /\ mpc \in {"fetch", "wait", "render", "aborted"} =>
           progress = Position /\ progress < AllPanels
    /\ mpc \in {"wait", "aborted"} =>
           /\ fn = PanelCollector(panel)
           /\ panel = 0 => fn = "get_flairs" /\ mode = 0
           /\ panel = 1 => fn = "get_flairs" /\ mode = 1
           /\ panel = 2 => fn = "get_flairs" /\ mode = 2
           /\ panel = 3 => fn = "get_average_comment_length"
           /\ panel = 4 => fn = "get_wall_of_text_fraction"
    /\ mpc = "aborted" => saved = 0 /\ pc = "raised"

MainSteps ==
    \* fetch, tally, process, in that order, for one panel after the other
    /\ mpc' # mpc =>
           <<mpc, mpc'>> \in {<<"fetch", "wait">>, <<"wait", "render">>,
                              <<"wait", "aborted">>, <<"render", "fetch">>,
                              <<"render", "save">>, <<"save", "done">>}
    /\ (panel' # panel \/ subreddit_index' # subreddit_index) =>
           mpc = "render" /\ Position' = Position + 1
    /\ progress' # progress => mpc = "render" /\ progress' = progress + 1
    \* the image is saved once, after the ten panels
    /\ saved' # saved => saved = 0 /\ saved' = 1 /\ progress = AllPanels
    \* an exception ends the run
    /\ pc = "raised" /\ mpc # "aborted" =>
           mpc' = "aborted" /\ saved' = saved /\ progress' = progress
    /\ mpc # "aborted"
    \* the flair panels are drawn only for a non-zero tally, with fractions
    /\ mpc = "render" /\ panel <= 2 =>
           /\ pcm_args'.called <=> Sum(results) # 0
           /\ pcm_args'.called =>
                  /\ AddTo(pcm_args'.values, 9) = One
                  /\ \A k \in 0..9 :
                         Mul(pcm_args'.values[k], Rat(Sum(results), 1))
                             = Rat(results[k], 1)

\* C11: main processes the five panels of the two communities one after the
\* other in the fixed order, saves the image once and only after the ten
\* panels, stops without saving or processing a later panel when a collector
\* raises, and draws a flair panel only for a non-zero tally, with ten
\* fractions that sum to 1.
T_C11 ==
    /\ []MainOrder
    /\ [][MainSteps]_vars

W_C11 ==
    /\ mpc = "done" /\ saved = 1
    /\ progress = 10
    /\ subreddit_index = 1 /\ panel = 4
    /\ pcm_args.called

====
